---- MODULE Spec2Model ----
(***************************************************************************)
(* Family-lineage registry: the permission evaluator canEdit and the       *)
(* relationship mutators, in the two revisions that have a canEdit:        *)
(*   "fk"   src/server.js lines 141-446 (father_id / mother_id / spouse_id *)
(*          columns on persons, marital checks in add-spouse / add-child)  *)
(*   "norm" src/unnamed/part_000 (parent_child and marriages tables)       *)
(* One deployment runs one revision; rev is fixed at Init.                 *)
(* Spec runs the relationship mutators one request at a time (each handler *)
(* runs to its response before the next request is taken); SpecPut adds    *)
(* PUT /persons/:id, SpecLogin runs POST /login, SpecConc interleaves the  *)
(* statements of concurrent requests and SpecFail lets a statement fail.   *)
(***************************************************************************)
EXTENDS Integers, FiniteSets, Sequences, TLC

VARIABLES rev, persons, parent_child, marriages, nextId, last, inflight

vars == <<rev, persons, parent_child, marriages, nextId, last, inflight>>

\* ---------------------------------------------------------------- bounds
\* ids handed out by uuidv4() are 1, 2, ...; at most MaxId persons ever exist
MaxId == 4
\* number of person rows already in the store when the server starts
NInit == 1
\* number of requests the server may be handling at the same time
MaxConc == 2

\* ------------------------------------------------------------- constants
\* SQL NULL / JS null in an id or tinyint column
NULL == 0
\* an id that is the id of no person, now or later (a request may carry any id)
Ghost == MaxId + 1

Genders == {"Male", "Female"}
Roles == {"ADMIN", "USER"}
Ids == DOMAIN persons
\* ids a request may name as target or as the userid header
ReqIds == Ids \cup {Ghost}

\* a row of persons
Person(gender, married, father_id, mother_id) ==
  [gender |-> gender, role |-> "USER", married |-> married,
   father_id |-> father_id, mother_id |-> mother_id, spouse_id |-> NULL]

\* ------------------------------------------------------ permission check
\* CanEditFK with the self-edit test left out
CanEditFK_NoSelf(ps, editorId, targetId) ==
  IF editorId \notin DOMAIN ps THEN FALSE
  ELSE IF ps[editorId].role = "ADMIN" THEN TRUE
  ELSE IF targetId \notin DOMAIN ps THEN FALSE
  ELSE IF targetId = ps[editorId].father_id
          \/ targetId = ps[editorId].mother_id THEN TRUE
  ELSE IF targetId = ps[editorId].spouse_id THEN TRUE
  ELSE IF ps[targetId].father_id = editorId
          \/ ps[targetId].mother_id = editorId THEN TRUE
  ELSE FALSE

\* CanEditFK with the target looked up before the ADMIN test
CanEditFK_TargetFirst(ps, editorId, targetId) ==
  IF editorId \notin DOMAIN ps THEN FALSE
  ELSE IF targetId \notin DOMAIN ps THEN FALSE
  ELSE IF ps[editorId].role = "ADMIN" THEN TRUE
  ELSE IF editorId = targetId THEN TRUE
  ELSE IF targetId = ps[editorId].father_id
          \/ targetId = ps[editorId].mother_id THEN TRUE
  ELSE IF targetId = ps[editorId].spouse_id THEN TRUE
  ELSE IF ps[targetId].father_id = editorId
          \/ ps[targetId].mother_id = editorId THEN TRUE
  ELSE FALSE

\* fk revision: direct foreign-key lookups on the two person rows
CanEditFK(ps, editorId, targetId) ==
  IF editorId \notin DOMAIN ps THEN FALSE
  ELSE IF ps[editorId].role = "ADMIN" THEN TRUE
  ELSE IF targetId \notin DOMAIN ps THEN FALSE
  ELSE IF editorId = targetId THEN TRUE
  ELSE IF targetId = ps[editorId].father_id
          \/ targetId = ps[editorId].mother_id THEN TRUE
  ELSE IF targetId = ps[editorId].spouse_id THEN TRUE
  ELSE IF ps[targetId].father_id = editorId
          \/ ps[targetId].mother_id = editorId THEN TRUE
  ELSE FALSE

\* CanEditNorm that also allows a child of one of the editor's parents
CanEditNorm_Siblings(ps, pc, mar, editorId, targetId) ==
  IF editorId \notin DOMAIN ps THEN FALSE
  ELSE IF ps[editorId].role = "ADMIN" THEN TRUE
  ELSE IF editorId = targetId THEN TRUE
  ELSE IF \E r \in pc : r[2] = editorId /\ r[1] = targetId THEN TRUE
  ELSE IF \E r \in pc : r[1] = editorId /\ r[2] = targetId THEN TRUE
  ELSE IF \E r \in pc, q \in pc :
            r[2] = editorId /\ q[2] = targetId /\ r[1] = q[1] THEN TRUE
  ELSE IF \E m \in mar :
            \/ m.person1_id = editorId /\ m.person2_id = targetId
            \/ m.person1_id = targetId /\ m.person2_id = editorId THEN TRUE
  ELSE FALSE

\* norm revision: scans of parent_child and marriages
CanEditNorm(ps, pc, mar, editorId, targetId) ==
  IF editorId \notin DOMAIN ps THEN FALSE
  ELSE IF ps[editorId].role = "ADMIN" THEN TRUE
  ELSE IF editorId = targetId THEN TRUE
  ELSE IF \E r \in pc : r[2] = editorId /\ r[1] = targetId THEN TRUE
  ELSE IF \E r \in pc : r[1] = editorId /\ r[2] = targetId THEN TRUE
  ELSE IF \E m \in mar :
            \/ m.person1_id = editorId /\ m.person2_id = targetId
            \/ m.person1_id = targetId /\ m.person2_id = editorId THEN TRUE
  ELSE FALSE

\* the evaluator of the deployed revision, on the current store
canEdit(editorId, targetId) ==
  IF rev = "fk" THEN CanEditFK(persons, editorId, targetId)
  ELSE CanEditNorm(persons, parent_child, marriages, editorId, targetId)

\* ------------------------------------------------------- request history
\* the last request handled: what was asked (the mutators never read the
\* userid header, so their editor is NULL), whether canEdit was invoked
\* for it and what it returned, the response status (0: the handler threw
\* before responding), whether a store write was issued
Req(op, editor, target, checked, allowed, status, wrote) ==
  [op |-> op, editor |-> editor, target |-> target, checked |-> checked,
   allowed |-> allowed, status |-> status, wrote |-> wrote]

NoReq == Req("none", NULL, NULL, FALSE, FALSE, 0, FALSE)

\* what the client gets when an async handler throws (rows[0] undefined):
\* the handlers have no try/catch, so the router in use decides: no response
\* at all (0) or its default 500
ThrowStatus == {0, 500}

\* a handler slot with no request in it
Idle == [op |-> "idle"]
Slots == 1..MaxConc

\* ------------------------------------------------------------------ Init
Init ==
  /\ rev \in {"fk", "norm"}
  /\ \E g \in [1..NInit -> Genders], r \in [1..NInit -> Roles] :
       persons = [i \in 1..NInit |->
                    [Person(g[i], 0, NULL, NULL) EXCEPT !.role = r[i]]]
  /\ parent_child = {}
  /\ marriages = {}
  /\ nextId = NInit + 1
  /\ last = NoReq
  /\ inflight = [s \in Slots |-> Idle]

\* ------------------------------------------- fk revision: the mutators
AddFatherFK(childId) ==
  /\ rev = "fk"
  /\ nextId <= MaxId
  /\ LET fatherId == nextId
         ins == persons @@ (fatherId :> Person("Male", 0, NULL, NULL))
     IN persons' = [i \in DOMAIN ins |->
                      IF i = childId THEN [ins[i] EXCEPT !.father_id = fatherId]
                      ELSE ins[i]]
  /\ nextId' = nextId + 1
  /\ last' = Req("add-father", NULL, childId, FALSE, FALSE, 200, TRUE)
  /\ UNCHANGED <<rev, parent_child, marriages>>

AddMotherFK(childId) ==
  /\ rev = "fk"
  /\ nextId <= MaxId
  /\ LET motherId == nextId
         ins == persons @@ (motherId :> Person("Female", 0, NULL, NULL))
     IN persons' = [i \in DOMAIN ins |->
                      IF i = childId THEN [ins[i] EXCEPT !.mother_id = motherId]
                      ELSE ins[i]]
  /\ nextId' = nextId + 1
  /\ last' = Req("add-mother", NULL, childId, FALSE, FALSE, 200, TRUE)
  /\ UNCHANGED <<rev, parent_child, marriages>>

\* AddSpouseFK without the married == 1 test
AddSpouseFK_NoCheck(personId, gender) ==
  /\ rev = "fk"
  /\ nextId <= MaxId
  /\ IF personId \notin Ids
       THEN /\ \E st \in ThrowStatus :
                 last' = Req("add-spouse", NULL, personId, FALSE, FALSE, st, FALSE)
            /\ UNCHANGED <<persons, nextId>>
     ELSE /\ LET spouseId == nextId
                 ins == persons @@ (spouseId :> Person(gender, 1, NULL, NULL))
                 upd1 == [ins EXCEPT ![personId].spouse_id = spouseId,
                                     ![personId].married = 1]
             IN persons' = [upd1 EXCEPT ![spouseId].spouse_id = personId,
                                        ![spouseId].married = 1]
          /\ nextId' = nextId + 1
          /\ last' = Req("add-spouse", NULL, personId, FALSE, FALSE, 200, TRUE)
  /\ UNCHANGED <<rev, parent_child, marriages>>

\* person.married == 1: when no row was selected, reading .married throws
AddSpouseFK(personId, gender) ==
  /\ rev = "fk"
  /\ nextId <= MaxId
  /\ IF personId \notin Ids
       THEN /\ \E st \in ThrowStatus :
                 last' = Req("add-spouse", NULL, personId, FALSE, FALSE, st, FALSE)
            /\ UNCHANGED <<persons, nextId>>
     ELSE IF persons[personId].married = 1
       THEN /\ last' = Req("add-spouse", NULL, personId, FALSE, FALSE, 400, FALSE)
            /\ UNCHANGED <<persons, nextId>>
     ELSE /\ LET spouseId == nextId
                 ins == persons @@ (spouseId :> Person(gender, 1, NULL, NULL))
                 upd1 == [ins EXCEPT ![personId].spouse_id = spouseId,
                                     ![personId].married = 1]
             IN persons' = [upd1 EXCEPT ![spouseId].spouse_id = personId,
                                        ![spouseId].married = 1]
          /\ nextId' = nextId + 1
          /\ last' = Req("add-spouse", NULL, personId, FALSE, FALSE, 200, TRUE)
  /\ UNCHANGED <<rev, parent_child, marriages>>

AddChildFK(parentId, gender) ==
  /\ rev = "fk"
  /\ nextId <= MaxId
  /\ IF parentId \notin Ids
       THEN /\ \E st \in ThrowStatus :
                 last' = Req("add-child", NULL, parentId, FALSE, FALSE, st, FALSE)
            /\ UNCHANGED <<persons, nextId>>
     ELSE IF persons[parentId].married # 1
       THEN /\ last' = Req("add-child", NULL, parentId, FALSE, FALSE, 400, FALSE)
            /\ UNCHANGED <<persons, nextId>>
     ELSE /\ LET parent == persons[parentId]
                 childId == nextId
                 father_id == IF parent.gender = "Male" THEN parentId
                              ELSE parent.spouse_id
                 mother_id == IF parent.gender = "Male" THEN parent.spouse_id
                              ELSE parentId
             IN persons' = persons @@
                             (childId :> Person(gender, 0, father_id, mother_id))
          /\ nextId' = nextId + 1
          /\ last' = Req("add-child", NULL, parentId, FALSE, FALSE, 200, TRUE)
  /\ UNCHANGED <<rev, parent_child, marriages>>

\* ------------------------------------------ norm revision: the mutators
\* AddFatherNorm that writes the child's id in both columns of the new row
AddFatherNorm_SelfEdge(childId) ==
  /\ rev = "norm"
  /\ nextId <= MaxId
  /\ persons' = persons @@ (nextId :> Person("Male", 0, NULL, NULL))
  /\ parent_child' = parent_child \cup {<<childId, childId>>}
  /\ nextId' = nextId + 1
  /\ last' = Req("add-father", NULL, childId, FALSE, FALSE, 200, TRUE)
  /\ UNCHANGED <<rev, marriages>>

AddFatherNorm(childId) ==
  /\ rev = "norm"
  /\ nextId <= MaxId
  /\ persons' = persons @@ (nextId :> Person("Male", 0, NULL, NULL))
  /\ parent_child' = parent_child \cup {<<nextId, childId>>}
  /\ nextId' = nextId + 1
  /\ last' = Req("add-father", NULL, childId, FALSE, FALSE, 200, TRUE)
  /\ UNCHANGED <<rev, marriages>>

\* parent_id of every row of parent_child with child_id = personId
ParentsOf(pc, personId) == {r[1] : r \in {q \in pc : q[2] = personId}}

\* AddSiblingNorm without the "Parents required" test
AddSiblingNorm_NoCheck(personId, gender) ==
  /\ rev = "norm"
  /\ nextId <= MaxId
  /\ LET parents == ParentsOf(parent_child, personId)
     IN /\ persons' = persons @@ (nextId :> Person(gender, 0, NULL, NULL))
        /\ parent_child' = parent_child \cup {<<p, nextId>> : p \in parents}
        /\ nextId' = nextId + 1
        /\ last' = Req("add-sibling", NULL, personId, FALSE, FALSE, 200, TRUE)
  /\ UNCHANGED <<rev, marriages>>

AddSiblingNorm(personId, gender) ==
  /\ rev = "norm"
  /\ nextId <= MaxId
  /\ LET parents == ParentsOf(parent_child, personId)
     IN IF parents = {}
          THEN /\ last' = Req("add-sibling", NULL, personId, FALSE, FALSE, 400, FALSE)
               /\ UNCHANGED <<persons, parent_child, nextId>>
        ELSE /\ persons' = persons @@ (nextId :> Person(gender, 0, NULL, NULL))
             /\ parent_child' = parent_child \cup {<<p, nextId>> : p \in parents}
             /\ nextId' = nextId + 1
             /\ last' = Req("add-sibling", NULL, personId, FALSE, FALSE, 200, TRUE)
  /\ UNCHANGED <<rev, marriages>>

\* a marriages row; its own id is a uuid, here the row's insertion number
Marriage(id, person1_id, person2_id) ==
  [id |-> id, person1_id |-> person1_id, person2_id |-> person2_id]

AddSpouseNorm(personId, gender) ==
  /\ rev = "norm"
  /\ nextId <= MaxId
  /\ LET spouseId == nextId
         ins == persons @@ (spouseId :> Person(gender, 1, NULL, NULL))
     IN persons' = [i \in DOMAIN ins |->
                      IF i \in {personId, spouseId}
                        THEN [ins[i] EXCEPT !.married = 1]
                      ELSE ins[i]]
  /\ marriages' = marriages \cup
                    {Marriage(Cardinality(marriages) + 1, personId, nextId)}
  /\ nextId' = nextId + 1
  /\ last' = Req("add-spouse", NULL, personId, FALSE, FALSE, 200, TRUE)
  /\ UNCHANGED <<rev, parent_child>>

\* rows of marriages selected by person1_id = parentId OR person2_id = parentId
MarriagesOf(mar, parentId) ==
  {m \in mar : m.person1_id = parentId \/ m.person2_id = parentId}

\* the other person of row m
SpouseIn(m, parentId) ==
  IF m.person1_id = parentId THEN m.person2_id ELSE m.person1_id

\* AddChildNorm that never attaches the spouse
AddChildNorm_NoSpouse(parentId, gender) ==
  /\ rev = "norm"
  /\ nextId <= MaxId
  /\ persons' = persons @@ (nextId :> Person(gender, 0, NULL, NULL))
  /\ parent_child' = parent_child \cup {<<parentId, nextId>>}
  /\ nextId' = nextId + 1
  /\ last' = Req("add-child", NULL, parentId, FALSE, FALSE, 200, TRUE)
  /\ UNCHANGED <<rev, marriages>>

\* marriage[0]: the SELECT has no ORDER BY, so any selected row may come first
AddChildNorm(parentId, gender) ==
  /\ rev = "norm"
  /\ nextId <= MaxId
  /\ LET childId == nextId
         marriage == MarriagesOf(marriages, parentId)
     IN /\ persons' = persons @@ (childId :> Person(gender, 0, NULL, NULL))
        /\ IF marriage # {}
             THEN \E m \in marriage :
                    parent_child' = parent_child \cup
                      {<<parentId, childId>>, <<SpouseIn(m, parentId), childId>>}
           ELSE parent_child' = parent_child \cup {<<parentId, childId>>}
  /\ nextId' = nextId + 1
  /\ last' = Req("add-child", NULL, parentId, FALSE, FALSE, 200, TRUE)
  /\ UNCHANGED <<rev, marriages>>

\* ------------------------------------------------------ PUT /persons/:id
\* body values as the request carries them: "" stands for an omitted or
\* empty field; "0" and "1" are the form strings of the married flag
MarriedInputs == {"", "0", "1"}
GenderInputs == {""} \cup Genders

\* the store's conversion of a form string to the tinyint column
ToFlag(v) == IF v = "1" THEN 1 ELSE 0

\* column = COALESCE(value || null, column): an empty value keeps the column
Merge(v, column) == IF v = "" THEN column ELSE v

\* the last request, for a PUT: with the gender and married values bound to
\* its UPDATE ("" and "" when it issued none)
PutReq(targetId, allowed, status, gender, married) ==
  [op |-> "put", editor |-> NULL, target |-> targetId, checked |-> TRUE,
   allowed |-> allowed, status |-> status, wrote |-> allowed,
   gender |-> gender, married |-> married]

\* PutPerson that writes every column from the body, omitted or not
PutPerson_Overwrite(editorId, targetId, gender, married) ==
  /\ IF ~canEdit(editorId, targetId)
       THEN /\ last' = PutReq(targetId, FALSE, 403, "", "")
            /\ UNCHANGED persons
     ELSE /\ persons' =
               [i \in Ids |->
                  IF i = targetId
                    THEN [persons[i] EXCEPT !.gender = gender,
                                            !.married = ToFlag(married)]
                  ELSE persons[i]]
          /\ last' = PutReq(targetId, TRUE, 200, gender, married)
  /\ UNCHANGED <<rev, parent_child, marriages, nextId, inflight>>

\* both revisions: the permission check, then one UPDATE ... WHERE id=targetId
PutPerson(editorId, targetId, gender, married) ==
  /\ IF ~canEdit(editorId, targetId)
       THEN /\ last' = PutReq(targetId, FALSE, 403, "", "")
            /\ UNCHANGED persons
     ELSE /\ persons' =
               [i \in Ids |->
                  IF i = targetId
                    THEN [persons[i] EXCEPT
                            !.gender = Merge(gender, @),
                            !.married = IF married = "" THEN @
                                        ELSE ToFlag(Merge(married, "0"))]
                  ELSE persons[i]]
          /\ last' = PutReq(targetId, TRUE, 200, gender, married)
  /\ UNCHANGED <<rev, parent_child, marriages, nextId, inflight>>

\* ------------------------------------------------------------------ Next
\* one request at a time: each handler runs from its first statement to its
\* response with no other request in between
Next ==
  \/ \E t \in ReqIds : AddFatherFK(t) /\ UNCHANGED inflight
  \/ \E t \in ReqIds : AddMotherFK(t) /\ UNCHANGED inflight
  \/ \E t \in ReqIds, g \in Genders : AddSpouseFK(t, g) /\ UNCHANGED inflight
  \/ \E t \in ReqIds, g \in Genders : AddChildFK(t, g) /\ UNCHANGED inflight
  \/ \E t \in ReqIds : AddFatherNorm(t) /\ UNCHANGED inflight
  \/ \E t \in ReqIds, g \in Genders : AddSiblingNorm(t, g) /\ UNCHANGED inflight
  \/ \E t \in ReqIds, g \in Genders : AddSpouseNorm(t, g) /\ UNCHANGED inflight
  \/ \E t \in ReqIds, g \in Genders : AddChildNorm(t, g) /\ UNCHANGED inflight

Spec == Init /\ [][Next]_vars

\* profile updates among add-father and add-spouse requests, one request at a
\* time, while fewer than MaxId - 2 persons exist
NextPut ==
  \/ \E t \in ReqIds : nextId + 1 < MaxId /\ AddFatherFK(t) /\ UNCHANGED inflight
  \/ \E t \in ReqIds, g \in Genders :
       nextId + 1 < MaxId /\ AddSpouseFK(t, g) /\ UNCHANGED inflight
  \/ \E t \in ReqIds : nextId + 1 < MaxId /\ AddFatherNorm(t) /\ UNCHANGED inflight
  \/ \E t \in ReqIds, g \in Genders :
       nextId + 1 < MaxId /\ AddSpouseNorm(t, g) /\ UNCHANGED inflight
  \/ \E e \in ReqIds, t \in ReqIds, g \in GenderInputs, m \in MarriedInputs :
       PutPerson(e, t, g, m)

SpecPut == Init /\ [][NextPut]_vars

\* ------------------------------------------------------------ POST /login
\* number of person rows in the store of the login runs
NLogin == 2
FirstNames == {"Asha", "Ravi"}
Surnames == {"Rao", "Iyer"}
\* process.env.PRIVATE_KEY, and the privateKey values a body may carry
PRIVATE_KEY == "secret"
Keys == {"secret", "guess"}

\* a row of persons with the two columns /login selects on
LoginRow(firstname, surname) ==
  [firstname |-> firstname, surname |-> surname, gender |-> "Male",
   role |-> "USER", married |-> 0, father_id |-> NULL, mother_id |-> NULL,
   spouse_id |-> NULL]

\* the last request, for a login: returned holds the row sent in the body
LoginReq(firstname, surname, privateKey, status, returned) ==
  [op |-> "login", firstname |-> firstname, surname |-> surname,
   privateKey |-> privateKey, status |-> status, returned |-> returned]

\* rows of SELECT * FROM persons WHERE firstname=? AND surname=?
NamedRows(firstname, surname) ==
  {i \in Ids : persons[i].firstname = firstname /\ persons[i].surname = surname}

\* Login that runs the SELECT before it compares the key
Login_NamesFirst(firstname, surname, privateKey) ==
  /\ LET rows == NamedRows(firstname, surname)
     IN IF rows = {}
          THEN last' = LoginReq(firstname, surname, privateKey, 404, {})
        ELSE IF privateKey # PRIVATE_KEY
          THEN last' = LoginReq(firstname, surname, privateKey, 401, {})
        ELSE \E i \in rows :
               last' = LoginReq(firstname, surname, privateKey, 200, {persons[i]})
  /\ UNCHANGED <<rev, persons, parent_child, marriages, nextId, inflight>>

\* rows[0]: the SELECT has no ORDER BY, so any selected row may come first
Login(firstname, surname, privateKey) ==
  /\ IF privateKey # PRIVATE_KEY
       THEN last' = LoginReq(firstname, surname, privateKey, 401, {})
     ELSE LET rows == NamedRows(firstname, surname)
          IN IF rows = {}
               THEN last' = LoginReq(firstname, surname, privateKey, 404, {})
             ELSE \E i \in rows :
                    last' = LoginReq(firstname, surname, privateKey, 200,
                                     {persons[i]})
  /\ UNCHANGED <<rev, persons, parent_child, marriages, nextId, inflight>>

\* a store of NLogin named persons
InitLogin ==
  /\ rev \in {"fk", "norm"}
  /\ \E f \in [1..NLogin -> FirstNames], n \in [1..NLogin -> Surnames] :
       persons = [i \in 1..NLogin |-> LoginRow(f[i], n[i])]
  /\ parent_child = {}
  /\ marriages = {}
  /\ nextId = NLogin + 1
  /\ last = NoReq
  /\ inflight = [s \in Slots |-> Idle]

NextLogin ==
  \E f \in FirstNames, n \in Surnames, k \in Keys : Login(f, n, k)

SpecLogin == InitLogin /\ [][NextLogin]_vars

\* --------------------------------------------- the handlers, by statement
\* Each await db.execute(...) is one step; up to MaxConc requests are handled
\* at once and their statements interleave (the pool runs every statement on
\* its own, no transaction). A Start action is the arrival of a request with
\* its first statement, a Step action its next statement; the response goes
\* out with the last statement.

\* a request being handled: pc is the number of statements it has run, id the
\* uuid it generated, rows what its SELECT returned and has still to use
InFlight(op, target, gender, pc, id, rows) ==
  [op |-> op, target |-> target, gender |-> gender, pc |-> pc, id |-> id,
   rows |-> rows]

\* slot s is the first free slot, and an id is left for this request after
\* every request that has still to generate its own
Free(s) ==
  /\ inflight[s].op = "idle"
  /\ \A x \in 1..(s - 1) : inflight[x].op # "idle"
  /\ nextId + Cardinality({x \in Slots : /\ inflight[x].op # "idle"
                                         /\ inflight[x].id = NULL}) <= MaxId

\* request s goes on to its next statement
Continue(s, r) ==
  /\ inflight' = [inflight EXCEPT ![s] = r]
  /\ UNCHANGED last

\* request s is answered
Respond(s, status) ==
  /\ inflight' = [inflight EXCEPT ![s] = Idle]
  /\ last' = Req(inflight[s].op, NULL, inflight[s].target, FALSE, FALSE,
                 status, inflight[s].id # NULL)

\* a request is answered by its first statement, before it wrote anything
Reject(op, target, status) ==
  /\ last' = Req(op, NULL, target, FALSE, FALSE, status, FALSE)
  /\ UNCHANGED <<persons, parent_child, marriages, nextId, inflight>>

\* INSERT INTO persons ... with a fresh uuid
InsertPerson(row) ==
  /\ persons' = persons @@ (nextId :> row)
  /\ nextId' = nextId + 1

\* UPDATE persons SET column = value WHERE id = id (no row: nothing changes)
UpdateSpouse(ps, id, spouse_id) ==
  [i \in DOMAIN ps |->
     IF i = id THEN [ps[i] EXCEPT !.spouse_id = spouse_id, !.married = 1]
     ELSE ps[i]]

StartAddFatherFK(s, childId) ==
  /\ rev = "fk" /\ Free(s)
  /\ InsertPerson(Person("Male", 0, NULL, NULL))
  /\ Continue(s, InFlight("add-father", childId, "Male", 1, nextId, {}))
  /\ UNCHANGED <<rev, parent_child, marriages>>

StepAddFatherFK(s) ==
  /\ rev = "fk" /\ inflight[s].op = "add-father"
  /\ persons' = [i \in Ids |->
                   IF i = inflight[s].target
                     THEN [persons[i] EXCEPT !.father_id = inflight[s].id]
                   ELSE persons[i]]
  /\ Respond(s, 200)
  /\ UNCHANGED <<rev, parent_child, marriages, nextId>>

StartAddMotherFK(s, childId) ==
  /\ rev = "fk" /\ Free(s)
  /\ InsertPerson(Person("Female", 0, NULL, NULL))
  /\ Continue(s, InFlight("add-mother", childId, "Female", 1, nextId, {}))
  /\ UNCHANGED <<rev, parent_child, marriages>>

StepAddMotherFK(s) ==
  /\ rev = "fk" /\ inflight[s].op = "add-mother"
  /\ persons' = [i \in Ids |->
                   IF i = inflight[s].target
                     THEN [persons[i] EXCEPT !.mother_id = inflight[s].id]
                   ELSE persons[i]]
  /\ Respond(s, 200)
  /\ UNCHANGED <<rev, parent_child, marriages, nextId>>

\* the SELECT and the married == 1 test
StartAddSpouseFK(s, personId, gender) ==
  /\ rev = "fk" /\ Free(s)
  /\ IF personId \notin Ids
       THEN \E st \in ThrowStatus : Reject("add-spouse", personId, st)
     ELSE IF persons[personId].married = 1
       THEN Reject("add-spouse", personId, 400)
     ELSE /\ Continue(s, InFlight("add-spouse", personId, gender, 1, NULL, {}))
          /\ UNCHANGED <<persons, parent_child, marriages, nextId>>
  /\ UNCHANGED rev

\* the INSERT, then the UPDATE of the target, then the UPDATE of the spouse
StepAddSpouseFK(s) ==
  /\ rev = "fk" /\ inflight[s].op = "add-spouse"
  /\ LET r == inflight[s]
     IN CASE r.pc = 1 ->
               /\ InsertPerson(Person(r.gender, 1, NULL, NULL))
               /\ Continue(s, [r EXCEPT !.pc = 2, !.id = nextId])
          [] r.pc = 2 ->
               /\ persons' = UpdateSpouse(persons, r.target, r.id)
               /\ Continue(s, [r EXCEPT !.pc = 3])
               /\ UNCHANGED nextId
          [] r.pc = 3 ->
               /\ persons' = UpdateSpouse(persons, r.id, r.target)
               /\ Respond(s, 200)
               /\ UNCHANGED nextId
  /\ UNCHANGED <<rev, parent_child, marriages>>

\* the SELECT and the married != 1 test; rows keeps the selected parent row
StartAddChildFK(s, parentId, gender) ==
  /\ rev = "fk" /\ Free(s)
  /\ IF parentId \notin Ids
       THEN \E st \in ThrowStatus : Reject("add-child", parentId, st)
     ELSE IF persons[parentId].married # 1
       THEN Reject("add-child", parentId, 400)
     ELSE /\ Continue(s, InFlight("add-child", parentId, gender, 1, NULL,
                                  {persons[parentId]}))
          /\ UNCHANGED <<persons, parent_child, marriages, nextId>>
  /\ UNCHANGED rev

StepAddChildFK(s) ==
  /\ rev = "fk" /\ inflight[s].op = "add-child"
  /\ LET r == inflight[s]
     IN \E parent \in r.rows :
          LET father_id == IF parent.gender = "Male" THEN r.target
                           ELSE parent.spouse_id
              mother_id == IF parent.gender = "Male" THEN parent.spouse_id
                           ELSE r.target
          IN /\ InsertPerson(Person(r.gender, 0, father_id, mother_id))
             /\ inflight' = [inflight EXCEPT ![s] = Idle]
             /\ last' = Req("add-child", NULL, r.target, FALSE, FALSE, 200, TRUE)
  /\ UNCHANGED <<rev, parent_child, marriages>>

StartAddFatherNorm(s, childId) ==
  /\ rev = "norm" /\ Free(s)
  /\ InsertPerson(Person("Male", 0, NULL, NULL))
  /\ Continue(s, InFlight("add-father", childId, "Male", 1, nextId, {}))
  /\ UNCHANGED <<rev, parent_child, marriages>>

StepAddFatherNorm(s) ==
  /\ rev = "norm" /\ inflight[s].op = "add-father"
  /\ parent_child' = parent_child \cup {<<inflight[s].id, inflight[s].target>>}
  /\ Respond(s, 200)
  /\ UNCHANGED <<rev, persons, marriages, nextId>>

\* the SELECT of the parents and the "Parents required" test
StartAddSiblingNorm(s, personId, gender) ==
  /\ rev = "norm" /\ Free(s)
  /\ LET parents == ParentsOf(parent_child, personId)
     IN IF parents = {}
          THEN Reject("add-sibling", personId, 400)
        ELSE /\ Continue(s, InFlight("add-sibling", personId, gender, 1, NULL,
                                     parents))
             /\ UNCHANGED <<persons, parent_child, marriages, nextId>>
  /\ UNCHANGED rev

\* the INSERT of the sibling, then one INSERT for each selected parent row
StepAddSiblingNorm(s) ==
  /\ rev = "norm" /\ inflight[s].op = "add-sibling"
  /\ LET r == inflight[s]
     IN IF r.pc = 1
          THEN /\ InsertPerson(Person(r.gender, 0, NULL, NULL))
               /\ Continue(s, [r EXCEPT !.pc = 2, !.id = nextId])
               /\ UNCHANGED parent_child
        ELSE \E p \in r.rows :
               /\ parent_child' = parent_child \cup {<<p, r.id>>}
               /\ IF r.rows = {p} THEN Respond(s, 200)
                  ELSE Continue(s, [r EXCEPT !.pc = r.pc + 1,
                                             !.rows = r.rows \ {p}])
               /\ UNCHANGED <<persons, nextId>>
  /\ UNCHANGED <<rev, marriages>>

StartAddSpouseNorm(s, personId, gender) ==
  /\ rev = "norm" /\ Free(s)
  /\ InsertPerson(Person(gender, 1, NULL, NULL))
  /\ Continue(s, InFlight("add-spouse", personId, gender, 1, nextId, {}))
  /\ UNCHANGED <<rev, parent_child, marriages>>

\* the INSERT INTO marriages, then UPDATE persons SET married=1 WHERE id IN
StepAddSpouseNorm(s) ==
  /\ rev = "norm" /\ inflight[s].op = "add-spouse"
  /\ LET r == inflight[s]
     IN IF r.pc = 1
          THEN /\ marriages' = marriages \cup
                     {Marriage(Cardinality(marriages) + 1, r.target, r.id)}
               /\ Continue(s, [r EXCEPT !.pc = 2])
               /\ UNCHANGED persons
        ELSE /\ persons' = [i \in Ids |->
                              IF i \in {r.target, r.id}
                                THEN [persons[i] EXCEPT !.married = 1]
                              ELSE persons[i]]
             /\ Respond(s, 200)
             /\ UNCHANGED marriages
  /\ UNCHANGED <<rev, parent_child, nextId>>

StartAddChildNorm(s, parentId, gender) ==
  /\ rev = "norm" /\ Free(s)
  /\ InsertPerson(Person(gender, 0, NULL, NULL))
  /\ Continue(s, InFlight("add-child", parentId, gender, 1, nextId, {}))
  /\ UNCHANGED <<rev, parent_child, marriages>>

\* the INSERT of (parent, child), the SELECT of the marriages, and when it
\* returned a row the INSERT of (spouse, child)
StepAddChildNorm(s) ==
  /\ rev = "norm" /\ inflight[s].op = "add-child"
  /\ LET r == inflight[s]
     IN CASE r.pc = 1 ->
               /\ parent_child' = parent_child \cup {<<r.target, r.id>>}
               /\ Continue(s, [r EXCEPT !.pc = 2])
          [] r.pc = 2 ->
               LET marriage == MarriagesOf(marriages, r.target)
               IN /\ IF marriage = {} THEN Respond(s, 200)
                     ELSE \E m \in marriage :
                            Continue(s, [r EXCEPT !.pc = 3,
                                           !.rows = {SpouseIn(m, r.target)}])
                  /\ UNCHANGED parent_child
          [] r.pc = 3 ->
               /\ parent_child' = parent_child \cup {<<p, r.id>> : p \in r.rows}
               /\ Respond(s, 200)
  /\ UNCHANGED <<rev, persons, marriages, nextId>>

\* the next statement of request s is rejected by the store: db.execute
\* throws, the handler has no try/catch and runs no further statement
FailStatement(s) ==
  /\ inflight[s].op # "idle"
  /\ inflight' = [inflight EXCEPT ![s] = Idle]
  /\ \E st \in ThrowStatus :
       last' = Req(inflight[s].op, NULL, inflight[s].target, FALSE, FALSE, st,
                   inflight[s].id # NULL)
  /\ UNCHANGED <<rev, persons, parent_child, marriages, nextId>>

NextConc ==
  \/ \E s \in Slots, t \in ReqIds : StartAddFatherFK(s, t)
  \/ \E s \in Slots : StepAddFatherFK(s)
  \/ \E s \in Slots, t \in ReqIds : StartAddMotherFK(s, t)
  \/ \E s \in Slots : StepAddMotherFK(s)
  \/ \E s \in Slots, t \in ReqIds, g \in Genders : StartAddSpouseFK(s, t, g)
  \/ \E s \in Slots : StepAddSpouseFK(s)
  \/ \E s \in Slots, t \in ReqIds, g \in Genders : StartAddChildFK(s, t, g)
  \/ \E s \in Slots : StepAddChildFK(s)
  \/ \E s \in Slots, t \in ReqIds : StartAddFatherNorm(s, t)
  \/ \E s \in Slots : StepAddFatherNorm(s)
  \/ \E s \in Slots, t \in ReqIds, g \in Genders : StartAddSiblingNorm(s, t, g)
  \/ \E s \in Slots : StepAddSiblingNorm(s)
  \/ \E s \in Slots, t \in ReqIds, g \in Genders : StartAddSpouseNorm(s, t, g)
  \/ \E s \in Slots : StepAddSpouseNorm(s)
  \/ \E s \in Slots, t \in ReqIds, g \in Genders : StartAddChildNorm(s, t, g)
  \/ \E s \in Slots : StepAddChildNorm(s)

\* a store after one add-father: person 1 and the father 2 created for it
InitConc ==
  /\ rev \in {"fk", "norm"}
  /\ \E g \in Genders :
       persons = (1 :> Person(g, 0, IF rev = "fk" THEN 2 ELSE NULL, NULL))
                   @@ (2 :> Person("Male", 0, NULL, NULL))
  /\ parent_child = IF rev = "norm" THEN {<<2, 1>>} ELSE {}
  /\ marriages = {}
  /\ nextId = 3
  /\ last = NoReq
  /\ inflight = [s \in Slots |-> Idle]

\* concurrent requests, every statement succeeding
SpecConc == InitConc /\ [][NextConc]_vars

\* concurrent requests, any statement after the first of a request may fail
NextFail ==
  \/ NextConc
  \/ \E s \in Slots : FailStatement(s)

SpecFail == InitConc /\ [][NextFail]_vars

\* no request is being handled
Quiescent == \A s \in Slots : inflight[s].op = "idle"

\* the id created by the last request, when it created a person
NewId == nextId - 1

\* ================================================================ claims
Mutators == {"add-father", "add-mother", "add-sibling", "add-spouse", "add-child"}

\* the tables of the store
store == <<persons, parent_child, marriages>>

\* x and y are joined by a parent-child relation (either direction) or by a
\* marriage relation (either order), as the deployed revision records them
Related(x, y) ==
  IF rev = "fk"
    THEN \/ persons[x].father_id = y \/ persons[x].mother_id = y
         \/ persons[y].father_id = x \/ persons[y].mother_id = x
         \/ persons[x].spouse_id = y \/ persons[y].spouse_id = x
  ELSE \/ <<x, y>> \in parent_child \/ <<y, x>> \in parent_child
       \/ \E m \in marriages : {m.person1_id, m.person2_id} = {x, y}

\* C1: a relationship mutator writes to the store only after canEdit was
\* invoked for the request and returned true.
C1_WriteOnlyAfterCanEdit ==
  (last.op \in Mutators /\ last.wrote) => (last.checked /\ last.allowed)

\* C2: norm revision: for every row (p, c) of parent_child, canEdit(p, c) and
\* canEdit(c, p) are both true.
C2_ParentChildCanEdit ==
  rev = "norm" =>
    \A r \in parent_child : canEdit(r[1], r[2]) /\ canEdit(r[2], r[1])

\* C3: norm revision: for every row (a, b) of marriages, canEdit(a, b) and
\* canEdit(b, a) are both true.
C3_MarriageCanEdit ==
  rev = "norm" =>
    \A m \in marriages : /\ canEdit(m.person1_id, m.person2_id)
                         /\ canEdit(m.person2_id, m.person1_id)

\* C4 as stated: canEdit(x, y) is false for any two different persons with no
\* parent-child relation and no marriage relation between them.
C4_UnrelatedDenied ==
  \A x \in Ids, y \in Ids :
    (x # y /\ ~Related(x, y)) => ~canEdit(x, y)

\* C4 amended: canEdit(x, y) is false for any two different persons with no
\* parent-child relation and no marriage relation between them, when x does
\* not have the role ADMIN.
C4_UnrelatedNonAdminDenied ==
  \A x \in Ids, y \in Ids :
    (x # y /\ ~Related(x, y) /\ persons[x].role # "ADMIN") => ~canEdit(x, y)

\* a non-ADMIN person with a sibling made by add-sibling and a grandparent,
\* neither of which it may edit
C4_Witness ==
  /\ rev = "norm"
  /\ \E x \in Ids, s \in Ids, g \in Ids :
       /\ persons[x].role # "ADMIN"
       /\ x # s /\ ParentsOf(parent_child, x) = ParentsOf(parent_child, s)
       /\ ParentsOf(parent_child, x) # {}
       /\ \E f \in ParentsOf(parent_child, x) : <<g, f>> \in parent_child
       /\ ~Related(x, s) /\ ~Related(x, g)
       /\ ~canEdit(x, s) /\ ~canEdit(x, g) /\ ~canEdit(s, x) /\ ~canEdit(g, x)

\* C5: canEdit(id, id) is true for every existing person, in both revisions.
C5_SelfEdit == \A id \in Ids : canEdit(id, id)

\* fk revision: a non-ADMIN person that has a father and a spouse edits itself
C5_Witness ==
  /\ rev = "fk"
  /\ \E id \in Ids : /\ persons[id].role # "ADMIN"
                     /\ persons[id].father_id # NULL
                     /\ persons[id].spouse_id # NULL
                     /\ canEdit(id, id)

\* C6: an existing person with role ADMIN may edit every target id, also an
\* id of no person, in both revisions.
C6_AdminEditsAll ==
  \A a \in Ids : persons[a].role = "ADMIN" => \A t \in ReqIds : canEdit(a, t)

\* fk revision: an ADMIN, unrelated persons and a target id of no person
C6_Witness ==
  /\ rev = "fk"
  /\ \E a \in Ids, y \in Ids :
       /\ persons[a].role = "ADMIN"
       /\ a # y /\ ~Related(a, y)
       /\ canEdit(a, y) /\ canEdit(a, Ghost)

\* the request (op, target) violates a precondition the mutator table lists
\* for it, in the current store
ViolatesPrecondition(op, target) ==
  \/ op \in {"add-father", "add-mother", "add-spouse"} /\ target \notin Ids
  \/ /\ rev = "fk" /\ op = "add-spouse"
     /\ target \in Ids /\ persons[target].married = 1
  \/ /\ rev = "fk" /\ op = "add-child"
     /\ target \in Ids /\ persons[target].married # 1
  \/ op = "add-sibling" /\ ParentsOf(parent_child, target) = {}

\* C7: a mutator request that violates one of its listed preconditions gets an
\* error response and leaves persons, parent_child and marriages as they were.
C7_PreconditionFailureWritesNothing ==
  [][ViolatesPrecondition(last'.op, last'.target)
       => (last'.status >= 400 /\ store' = store)]_vars

\* C8: norm revision: add-sibling on a target that is the child_id of no row
\* of parent_child answers 400 and leaves persons and parent_child unchanged.
C8_SiblingNeedsParents ==
  [][(rev = "norm" /\ last'.op = "add-sibling"
        /\ ParentsOf(parent_child, last'.target) = {})
       => (last'.status = 400 /\ persons' = persons
             /\ parent_child' = parent_child)]_vars

\* add-sibling was refused for an existing person without parents, while
\* another person of the store has a parent
C8_Witness ==
  /\ rev = "norm"
  /\ last.op = "add-sibling" /\ last.status = 400
  /\ last.target \in Ids
  /\ ParentsOf(parent_child, last.target) = {}
  /\ parent_child # {}

\* C9: add-spouse right after an add-spouse on the same existing target: in
\* the fk revision (marital check) it answers 400 and changes nothing; in the
\* norm revision (no check) it succeeds and marriages then has two rows that
\* contain the target.
C9_SecondSpouse ==
  [][(last.op = "add-spouse" /\ last.target \in Ids
        /\ last'.op = "add-spouse" /\ last'.target = last.target)
       => IF rev = "fk"
            THEN last'.status = 400 /\ store' = store
          ELSE /\ last'.status = 200
               /\ Cardinality(MarriagesOf(marriages', last.target)) >= 2
               /\ Cardinality(marriages') = Cardinality(marriages) + 1]_vars

\* norm revision: the target of the last add-spouse is in two marriages rows
\* and two spouses were created for it
C9_Witness ==
  /\ rev = "norm"
  /\ last.op = "add-spouse" /\ last.status = 200 /\ last.target \in Ids
  /\ Cardinality(MarriagesOf(marriages, last.target)) = 2
  /\ \A m \in marriages : m.person1_id = last.target

\* C10: norm revision: a completed add-child on P adds exactly the rows
\* (P, child) and (spouse of P, child) when some marriages row contains P,
\* the spouse being the other person of one such row, and exactly the row
\* (P, child) when none does.
C10_ChildEdges ==
  [][(rev = "norm" /\ last'.op = "add-child" /\ last'.status = 200)
       => LET P == last'.target
              child == nextId
              added == parent_child' \ parent_child
          IN /\ parent_child \subseteq parent_child'
             /\ child \in DOMAIN persons' /\ child \notin Ids
             /\ IF \E m \in marriages : P \in {m.person1_id, m.person2_id}
                  THEN /\ Cardinality(added) = 2
                       /\ \E m \in marriages, sp \in ReqIds :
                            /\ sp # P
                            /\ {m.person1_id, m.person2_id} = {P, sp}
                            /\ added = {<<P, child>>, <<sp, child>>}
                ELSE added = {<<P, child>>}]_vars

\* a child was added to a parent that is in two marriages rows and got two
\* parents
C10_Witness ==
  /\ rev = "norm"
  /\ last.op = "add-child" /\ last.status = 200 /\ last.target \in Ids
  /\ Cardinality(MarriagesOf(marriages, last.target)) = 2
  /\ Cardinality(ParentsOf(parent_child, NewId)) = 2

\* C15: norm revision: both ids of every parent_child row and both person ids
\* of every marriages row are ids of rows of persons.
C15_NoDanglingEdges ==
  rev = "norm" =>
    /\ \A r \in parent_child : r[1] \in Ids /\ r[2] \in Ids
    /\ \A m \in marriages : m.person1_id \in Ids /\ m.person2_id \in Ids

\* the parent-child relation the store records: pairs (parent, child)
ParentRel ==
  IF rev = "fk"
    THEN {<<persons[c].father_id, c>> : c \in {i \in Ids : persons[i].father_id # NULL}}
         \cup {<<persons[c].mother_id, c>> : c \in {i \in Ids : persons[i].mother_id # NULL}}
  ELSE parent_child

\* the marriage relation the store records: unordered pairs
MarriageRel ==
  IF rev = "fk"
    THEN {{i, persons[i].spouse_id} : i \in {j \in Ids : persons[j].spouse_id # NULL}}
  ELSE {{m.person1_id, m.person2_id} : m \in marriages}

\* C17: both revisions: a person that exists, a parent-child relation (p, c)
\* that holds and a marriage relation {a, b} that holds still do after every
\* request.
C17_AppendOnly ==
  [][/\ Ids \subseteq DOMAIN persons'
     /\ ParentRel \subseteq ParentRel'
     /\ MarriageRel \subseteq MarriageRel']_vars

\* the ancestors of the members of S, by at most n more rounds of parent lookup
RECURSIVE AncestorsWithin(_, _, _)
AncestorsWithin(pc, S, n) ==
  IF n = 0 THEN S
  ELSE AncestorsWithin(pc, S \cup {r[1] : r \in {q \in pc : q[2] \in S}}, n - 1)

Ancestors(pc, x) == AncestorsWithin(pc, ParentsOf(pc, x), Cardinality(pc))

C11_PartialMerge ==
  [][last'.op = "put" =>
       /\ (\A e \in ReqIds : ~canEdit(e, last'.target)) => last'.status = 403
       /\ IF last'.status = 403
            THEN store' = store
          ELSE /\ last'.status = 200
               /\ DOMAIN persons' = Ids
               /\ parent_child' = parent_child
               /\ marriages' = marriages
               /\ \A i \in Ids :
                    IF i # last'.target THEN persons'[i] = persons[i]
                    ELSE /\ last'.gender = "" => persons'[i].gender = persons[i].gender
                         /\ last'.married = "" => persons'[i].married = persons[i].married
                         /\ persons'[i].role = persons[i].role
                         /\ persons'[i].father_id = persons[i].father_id
                         /\ persons'[i].mother_id = persons[i].mother_id
                         /\ persons'[i].spouse_id = persons[i].spouse_id]_vars

\* a permitted PUT that set only the gender of a married person with a spouse
\* has left its married flag set
C11_Witness ==
  /\ last.op = "put" /\ last.status = 200
  /\ last.gender # "" /\ last.married = ""
  /\ last.target \in Ids
  /\ persons[last.target].gender = last.gender
  /\ persons[last.target].married = 1
  /\ \E y \in Ids : y # last.target /\ Related(last.target, y)

\* C16: norm revision: a person's married flag is set if and only if some
\* marriages row contains that person.
C16_MarriedFlagAgrees ==
  rev = "norm" =>
    \A i \in Ids :
      persons[i].married = 1 <=> MarriagesOf(marriages, i) # {}

\* C12: a /login with a privateKey other than the configured secret answers
\* 401 and returns no row, whether or not a person has the given names; with
\* the secret and the names of a stored person it answers 200 with the row of
\* a person of those names; with the secret and names no person has, 404.
C12_Login ==
  last.op = "login" =>
    LET rows == NamedRows(last.firstname, last.surname)
    IN /\ last.privateKey # PRIVATE_KEY =>
            last.status = 401 /\ last.returned = {}
       /\ (last.privateKey = PRIVATE_KEY /\ rows # {}) =>
            /\ last.status = 200
            /\ \E i \in rows : last.returned = {persons[i]}
       /\ (last.privateKey = PRIVATE_KEY /\ rows = {}) =>
            last.status = 404 /\ last.returned = {}

\* a login with a wrong key and the names of a stored person was answered 401
C12_Witness ==
  /\ last.op = "login"
  /\ last.privateKey # PRIVATE_KEY
  /\ NamedRows(last.firstname, last.surname) # {}
  /\ last.status = 401

\* C13: each mutator is one atomic unit, also when a statement fails part-way:
\* once no request is being handled, no person created as a spouse (inserted
\* with married = 1) is without its marriage edge (the marriages row in the
\* norm revision, its spouse_id in the fk revision).
C13_SpouseHasMarriage ==
  Quiescent =>
    \A i \in Ids :
      persons[i].married = 1 =>
        IF rev = "fk" THEN persons[i].spouse_id # NULL
        ELSE MarriagesOf(marriages, i) # {}

\* C14: fk revision, concurrent add-spouse requests with every statement
\* succeeding: once no request is being handled, at most one person has
\* spouse_id = t for every person t, and the spouse_id of t names a person
\* whose spouse_id is t.
C14_OneMutualSpouse ==
  (rev = "fk" /\ Quiescent) =>
    \A t \in Ids :
      /\ Cardinality({i \in Ids : persons[i].spouse_id = t}) <= 1
      /\ persons[t].spouse_id # NULL =>
           /\ persons[t].spouse_id \in Ids
           /\ persons[persons[t].spouse_id].spouse_id = t

\* the marriages rows that record the spouse links of the fk store: one row
\* (i, spouse_id of i) for every person i with a spouse_id
SpouseLinkRows ==
  {Marriage(i, i, persons[i].spouse_id) :
     i \in {j \in Ids : persons[j].spouse_id # NULL}}

\* C18: the fk canEdit on a store and the norm canEdit on the tables that
\* record the same persons, parent-child relations and spouse links decide
\* alike for every editor id and target id, ids of no person included.
C18_SameDecision ==
  (rev = "fk" /\ Quiescent) =>
    \A e \in ReqIds, t \in ReqIds :
      CanEditFK(persons, e, t)
        = CanEditNorm(persons, ParentRel, SpouseLinkRows, e, t)

\* C20: norm revision: at the step where an add-sibling on T is answered 200,
\* the parents of the new sibling are the parents of T in the store as it then
\* is, also with other requests interleaved.
C20_SiblingParents ==
  [][\A s \in Slots :
       (/\ rev = "norm"
        /\ inflight[s].op = "add-sibling"
        /\ inflight'[s].op = "idle"
        /\ last'.op = "add-sibling" /\ last'.status = 200)
       => ParentsOf(parent_child', inflight[s].id)
            = ParentsOf(parent_child', inflight[s].target)]_vars

====
